---- MODULE Spec2Model ----
(***************************************************************************)
(* Model of scripts/add-icon-data.js: the interactive script that asks a   *)
(* maintainer for the data of one new icon, validates every answer, builds *)
(* the icon record, and after a confirmation pushes it into the dataset,   *)
(* sorts the dataset by title and writes it out.                           *)
(*                                                                         *)
(* Texts are sequences of one-character strings, so that the validators,   *)
(* the slug, the colour normalisation and the alias splitting are computed *)
(* character by character.  Objects (the answers, an icon, a license, an   *)
(* aliases map) are functions from their keys to their values; an absent   *)
(* key is a key outside the DOMAIN.                                        *)
(***************************************************************************)
EXTENDS Integers, Sequences, FiniteSets, TLC

VARIABLES
  pc,          \* the prompt the script is waiting at, or "Done" / "Aborted"
  answers,     \* the answers object (line 90), keys added as prompts resolve
  iconsData,   \* iconsData.icons, the in-memory dataset (line 17)
  loaded,      \* the dataset as getIconsDataString() returned it at start
  written,     \* the datasets handed to writeIconsData, in call order
  exitCode,    \* -1 while running, 0 after a normal end, 1 after process.exit(1)
  validation,  \* the last call of a prompt's validate: prompt, text, result
  shown,       \* the record displayed in the message of the Confirm prompt
  i,           \* position of the for-loop over aliasesChoices (line 159)
  issued,      \* the answer keys of the prompts opened so far, in order
  search,      \* the text typed into the open license type search and the
               \* candidates its source returned for it
  gateTyped    \* what was typed at the aliases gate: "y", "n" or nothing

vars ==
  <<pc, answers, iconsData, loaded, written, exitCode, validation, shown, i,
    issued, search, gateTyped>>

(***************************************************************************)
(* Bounds of the model.                                                    *)
(***************************************************************************)
MaxTitleLen == 2
MaxIcons == 2

(***************************************************************************)
(* Texts.                                                                  *)
(***************************************************************************)
RECURSIVE Concat(_)
\* the concatenation of a sequence of texts
Concat(ss) == IF ss = <<>> THEN <<>> ELSE Head(ss) \o Concat(Tail(ss))

UpperOf == [a |-> "A", b |-> "B", c |-> "C", d |-> "D", e |-> "E",
   f |-> "F", g |-> "G", h |-> "H", i |-> "I", j |-> "J", k |-> "K",
   l |-> "L", m |-> "M", n |-> "N", o |-> "O", p |-> "P", q |-> "Q",
   r |-> "R", s |-> "S", t |-> "T", u |-> "U", v |-> "V", w |-> "W",
   x |-> "X", y |-> "Y", z |-> "Z"]
LowerOf == [A |-> "a", B |-> "b", C |-> "c", D |-> "d", E |-> "e",
   F |-> "f", G |-> "g", H |-> "h", I |-> "i", J |-> "j", K |-> "k",
   L |-> "l", M |-> "m", N |-> "n", O |-> "o", P |-> "p", Q |-> "q",
   R |-> "r", S |-> "s", T |-> "t", U |-> "u", V |-> "v", W |-> "w",
   X |-> "x", Y |-> "y", Z |-> "z"]

\* String.prototype.toUpperCase / toLowerCase, one character
ToUpperChar(c) == IF c \in DOMAIN UpperOf THEN UpperOf[c] ELSE c
ToLowerChar(c) == IF c \in DOMAIN LowerOf THEN LowerOf[c] ELSE c

toUpperCase(text) == [k \in 1..Len(text) |-> ToUpperChar(text[k])]
toLowerCase(text) == [k \in 1..Len(text) |-> ToLowerChar(text[k])]

Digits == {"0", "1", "2", "3", "4", "5", "6", "7", "8", "9"}
\* the character class [a-f0-9] under the i flag
HexDigits == Digits \cup {"a", "b", "c", "d", "e", "f"} \cup {"A", "B", "C", "D", "E", "F"}

WhiteSpace == {" "}

\* JavaScript truthiness of a string: the empty string is falsy
Truthy(text) == text # <<>>

\* a validator's result: true, or the reason string
Accept == [valid |-> TRUE, reason |-> ""]
Reject(msg) == [valid |-> FALSE, reason |-> msg]

\* object spread {...a, ...b}: a later key wins
Spread(a, b) == b @@ a
EmptyObject == <<>>

(***************************************************************************)
(* The collaborators imported from ../sdk.mjs and ./utils.js.              *)
(***************************************************************************)
\* characters the slug drops
SlugDropped == {" ", "!", ":", "'"}

\* titleToSlug: the title lowercased, its spaces and punctuation removed
titleToSlug(title) == SelectSeq(toLowerCase(title), LAMBDA c : c \notin SlugDropped)

\* normalizeColor: the hex text without its leading '#', in upper case
normalizeColor(text) ==
  toUpperCase(IF text # <<>> /\ Head(text) = "#" THEN Tail(text) ELSE text)

UrlScheme == <<"h", "t", "t", "p", "s", ":", "/", "/">>
UrlForbidden == WhiteSpace \cup {"\"", "'"}

\* URL_REGEX.test: "https://" followed by one or more characters, none of
\* them white space or a quote
URL_REGEX_test(text) ==
  /\ Len(text) > Len(UrlScheme)
  /\ SubSeq(text, 1, Len(UrlScheme)) = UrlScheme
  /\ \A k \in (Len(UrlScheme) + 1)..Len(text) : text[k] \notin UrlForbidden

\* primary collation weight of a character: letters in alphabetical order,
\* case ignored, the space before them
CharWeight(c) ==
  CASE c = " " -> 0
    [] ToLowerChar(c) = "a" -> 1
    [] ToLowerChar(c) = "b" -> 2
    [] ToLowerChar(c) = "c" -> 3
    [] OTHER -> 4

IsUpper(c) == c \in DOMAIN LowerOf

RECURSIVE ComparePrimary(_, _)
\* the texts compared character by character on their primary weights
ComparePrimary(a, b) ==
  IF a = <<>> /\ b = <<>> THEN 0
  ELSE IF a = <<>> THEN -1
  ELSE IF b = <<>> THEN 1
  ELSE IF CharWeight(Head(a)) < CharWeight(Head(b)) THEN -1
  ELSE IF CharWeight(Head(a)) > CharWeight(Head(b)) THEN 1
  ELSE ComparePrimary(Tail(a), Tail(b))

RECURSIVE CompareCase(_, _)
\* the tie-break of texts with equal primary weights: upper case first
CompareCase(a, b) ==
  IF a = <<>> \/ b = <<>> THEN 0
  ELSE IF IsUpper(Head(a)) /\ ~IsUpper(Head(b)) THEN -1
  ELSE IF ~IsUpper(Head(a)) /\ IsUpper(Head(b)) THEN 1
  ELSE CompareCase(Tail(a), Tail(b))

\* collator.compare: a negative number, 0 or a positive number
collator_compare(a, b) ==
  IF ComparePrimary(a, b) # 0 THEN ComparePrimary(a, b) ELSE CompareCase(a, b)

\* the keys of jsonSchema.definitions.brand.properties.aliases.properties
AliasesProperties == <<"aka", "dup", "loc", "old">>

\* jsonSchema.definitions.brand.properties.license.oneOf[0].properties.type.enum
LicenseTypeEnum == <<<<"A", "A", "L">>, <<"M", "I", "T">>>>

(***************************************************************************)
(* The validators (lines 15-35).                                           *)
(***************************************************************************)
\* hexPattern.test(text), hexPattern = /^#?[a-f0-9]{3,8}$/i
hexPattern_test(text) ==
  LET body == IF text # <<>> /\ Head(text) = "#" THEN Tail(text) ELSE text
  IN  /\ Len(body) >= 3
      /\ Len(body) <= 8
      /\ \A k \in 1..Len(body) : body[k] \in HexDigits

\* a variant of TitleOrSlugFound that compares the titles only
TitleFound(icons, text) == \E k \in 1..Len(icons) : icons[k].title = text

\* iconsData.icons.find(...) of titleValidator: is some record found?
TitleOrSlugFound(icons, text) ==
  \E k \in 1..Len(icons) :
    \/ icons[k].title = text
    \/ titleToSlug(icons[k].title) = titleToSlug(text)

\* a variant of titleValidator with the test of the find inverted
TitleValidatorInverted(icons, text) ==
  IF ~Truthy(text) THEN Reject("This field is required")
  ELSE IF ~TitleOrSlugFound(icons, text)
       THEN Reject("This icon title or slug already exist")
       ELSE Accept

\* a variant of titleValidator that only requires a text
TitleRequired(icons, text) ==
  IF ~Truthy(text) THEN Reject("This field is required") ELSE Accept

titleValidator(icons, text) ==
  IF ~Truthy(text) THEN Reject("This field is required")
  ELSE IF TitleOrSlugFound(icons, text)
       THEN Reject("This icon title or slug already exist")
       ELSE Accept

hexValidator(text) ==
  IF hexPattern_test(text) THEN Accept
  ELSE Reject("This should be a valid hex code")

sourceValidator(text) ==
  IF URL_REGEX_test(text) THEN Accept
  ELSE Reject("This should be a secure URL")

\* a variant of licenseUrlValidator without the test for an empty text
LicenseUrlRequired(text) == sourceValidator(text)

\* validate of the License URL prompt: !Boolean(text) || sourceValidator(text)
licenseUrlValidator(text) ==
  IF ~Truthy(text) THEN Accept ELSE sourceValidator(text)

\* validate of an alias list prompt: Boolean(text)
aliasesListValidator(text) ==
  IF Truthy(text) THEN Accept ELSE Reject("")

(***************************************************************************)
(* The record builder (lines 54-88).                                       *)
(***************************************************************************)
\* aliasesChoices: the schema's alias properties filtered to aka and old,
\* in schema order (the value of each choice)
aliasesChoices == SelectSeq(AliasesProperties, LAMBDA k : k \in {"aka", "old"})

\* `${current.value}AliasesList`
promptKey(value) == value \o "AliasesList"

\* answers[key] as a condition: an absent key is undefined, which is falsy
TruthyAt(obj, key) == key \in DOMAIN obj /\ Truthy(obj[key])

RECURSIVE split(_)
\* text.split(','): the pieces between the commas, in order
split(text) ==
  IF \A k \in 1..Len(text) : text[k] # ","
  THEN <<text>>
  ELSE LET c == CHOOSE k \in 1..Len(text) :
                  text[k] = "," /\ \A j \in 1..(k - 1) : text[j] # ","
       IN  <<SubSeq(text, 1, c - 1)>> \o split(SubSeq(text, c + 1, Len(text)))

RECURSIVE trimStart(_)
trimStart(text) ==
  IF text # <<>> /\ Head(text) \in WhiteSpace THEN trimStart(Tail(text)) ELSE text

RECURSIVE trimEnd(_)
trimEnd(text) ==
  IF text # <<>> /\ text[Len(text)] \in WhiteSpace
  THEN trimEnd(SubSeq(text, 1, Len(text) - 1))
  ELSE text

\* String.prototype.trim
trim(text) == trimEnd(trimStart(text))

\* a variant of SplitAliases that does not trim the entries
SplitOnly(text) == split(text)

\* answers[promptKey].split(',').map((x) => x.trim())
SplitAliases(text) == [k \in 1..Len(split(text)) |-> trim(split(text)[k])]

RECURSIVE AliasesReduce(_, _, _)
\* aliasesChoices.reduce(..., {}) of lines 75-85, from choice number n on
AliasesReduce(obj, previous, n) ==
  IF n > Len(aliasesChoices) THEN previous
  ELSE LET current == aliasesChoices[n]
       IN  IF TruthyAt(obj, promptKey(current))
           THEN AliasesReduce(obj,
                  Spread(previous, current :> SplitAliases(obj[promptKey(current)])),
                  n + 1)
           ELSE AliasesReduce(obj, previous, n + 1)

\* a variant of LicenseOf that always sets the url key
LicenseWithUrl(obj) ==
  [type |-> obj.licenseType,
   url |-> IF "licenseUrl" \in DOMAIN obj THEN obj.licenseUrl ELSE <<>>]

\* the license object of lines 67-70
LicenseOf(obj) ==
  Spread([type |-> obj.licenseType],
         IF TruthyAt(obj, "licenseUrl") THEN [url |-> obj.licenseUrl] ELSE EmptyObject)

\* a variant of getIconDataFromAnswers that sets every key, an optional part
\* that was not asked for as an empty value
IconDataWithPlaceholders(obj) ==
  [title |-> obj.title, hex |-> normalizeColor(obj.hex), source |-> obj.source,
   guidelines |-> IF obj.hasGuidelines THEN obj.guidelines ELSE <<>>,
   license |-> IF obj.hasLicense THEN LicenseOf(obj) ELSE EmptyObject,
   aliases |-> IF obj.hasAliases THEN AliasesReduce(obj, EmptyObject, 1)
               ELSE EmptyObject]

\* a variant of getIconDataFromAnswers that also copies the confirmation
IconDataWithConfirmation(obj) ==
  Spread(
    Spread(Spread(Spread(
      [title |-> obj.title, hex |-> normalizeColor(obj.hex), source |-> obj.source],
      IF obj.hasGuidelines THEN [guidelines |-> obj.guidelines] ELSE EmptyObject),
      IF obj.hasLicense THEN [license |-> LicenseOf(obj)] ELSE EmptyObject),
      IF obj.hasAliases
      THEN [aliases |-> AliasesReduce(obj, EmptyObject, 1)] ELSE EmptyObject),
    IF "confirmToAdd" \in DOMAIN obj
    THEN [confirmToAdd |-> obj.confirmToAdd] ELSE EmptyObject)

getIconDataFromAnswers(obj) ==
  Spread(Spread(Spread(
    [title |-> obj.title, hex |-> normalizeColor(obj.hex), source |-> obj.source],
    IF obj.hasGuidelines
    THEN [guidelines |-> obj.guidelines] ELSE EmptyObject),
    IF obj.hasLicense
    THEN [license |-> LicenseOf(obj)] ELSE EmptyObject),
    IF obj.hasAliases
    THEN [aliases |-> AliasesReduce(obj, EmptyObject, 1)] ELSE EmptyObject)

(***************************************************************************)
(* The dataset: push and sort (lines 180-181).                             *)
(***************************************************************************)
Front(s) == SubSeq(s, 1, Len(s) - 1)
Last(s) == s[Len(s)]

RECURSIVE InsertByTitle(_, _)
\* one step of the stable sort: x moves left past the records that compare
\* greater than it
InsertByTitle(s, x) ==
  IF s = <<>> THEN <<x>>
  ELSE IF collator_compare(Last(s).title, x.title) <= 0 THEN Append(s, x)
  ELSE Append(InsertByTitle(Front(s), x), Last(s))

RECURSIVE SortByTitle(_)
\* icons.sort((a, b) => collator.compare(a.title, b.title)), a stable sort
SortByTitle(s) ==
  IF s = <<>> THEN <<>> ELSE InsertByTitle(SortByTitle(Front(s)), Last(s))

\* a variant of PushAndSort that stores the record at the last index
\* instead of pushing it
StoreLastAndSort(icons, icon) ==
  SortByTitle(IF icons = <<>> THEN <<icon>> ELSE Append(Front(icons), icon))

\* a variant of PushAndSort that leaves the pushed record at the end
PushOnly(icons, icon) == Append(icons, icon)

\* lines 180-181: iconsData.icons after the push and the sort
PushAndSort(icons, icon) == SortByTitle(Append(icons, icon))

(***************************************************************************)
(* What the maintainer may type at each prompt.                            *)
(***************************************************************************)
TitleChars == {"a", "A"}

RECURSIVE TextsOfLen(_)
TextsOfLen(n) ==
  IF n = 0 THEN {<<>>}
  ELSE {Append(t, c) : t \in TextsOfLen(n - 1), c \in TitleChars}

\* every text of at most MaxTitleLen characters, the empty one included
TitleInputs == UNION {TextsOfLen(n) : n \in 0..MaxTitleLen}

HexInputs ==
  { <<>>,
    <<"a", "b">>,
    <<"#", "a", "B", "3">>,
    <<"a", "B", "3", "f", "0">>,
    <<"g", "0", "0">>,
    <<"#">> }

\* texts typed at a URL prompt, with host the one-letter host name
UrlInputs(host) ==
  { <<>>,
    <<"h", "t", "t", "p", ":", "/", "/", host>>,
    UrlScheme \o <<host>>,
    UrlScheme \o <<" ", host>>,
    UrlScheme }

SourceInputs == UrlInputs("s")
GuidelinesInputs == UrlInputs("g")
LicenseUrlInputs == UrlInputs("l")

\* texts typed into the license type search
LicenseTypeInputs == {<<>>, <<"a">>, <<" ", "m", "I", " ">>, <<"x">>}

AliasesListInputs ==
  { <<>>,
    <<" ">>,
    <<"b", ",", " ", "a", " ">>,
    <<"a", ",", ",">> }

(***************************************************************************)
(* The datasets the script may load: records sorted by title under the     *)
(* collator, no two of them with the same title or the same slug.          *)
(***************************************************************************)
ExistingIcon(title) ==
  [title |-> title, hex |-> <<"F", "F", "F">>, source |-> UrlScheme \o <<"e">>]

IsSortedByTitle(icons) ==
  \A k \in 1..(Len(icons) - 1) :
    collator_compare(icons[k].title, icons[k + 1].title) <= 0

IsUnique(icons) ==
  \A j, k \in 1..Len(icons) :
    j # k => /\ icons[j].title # icons[k].title
             /\ titleToSlug(icons[j].title) # titleToSlug(icons[k].title)

LoadedDatasets ==
  { icons \in UNION {[1..n -> {ExistingIcon(t) : t \in TitleInputs \ {<<>>}}] :
                       n \in 0..MaxIcons} :
      IsSortedByTitle(icons) /\ IsUnique(icons) }

(***************************************************************************)
(* The prompt sequence (lines 90-187).                                     *)
(***************************************************************************)
\* answers[key] = value
SetKey(obj, key, value) == Spread(obj, key :> value)

NoValidation == [prompt |-> "none", text |-> <<>>, result |-> Accept]
Validated(prompt, text, result) == [prompt |-> prompt, text |-> text, result |-> result]

\* text.includes(part)
Includes(text, part) ==
  \E k \in 0..(Len(text) - Len(part)) : SubSeq(text, k + 1, k + Len(part)) = part

\* licenseTypes of lines 124-129: the value of each entry
licenseTypes == LicenseTypeEnum

\* a variant of licenseTypeSource that does not trim the typed text
licenseTypeSourceUntrimmed(input) ==
  IF Truthy(input)
  THEN SelectSeq(licenseTypes,
                 LAMBDA license : Includes(toLowerCase(license), toLowerCase(input)))
  ELSE licenseTypes

\* source of the license type autocomplete (lines 132-139)
licenseTypeSource(input) ==
  LET typed == trim(input)
  IN  IF Truthy(typed)
      THEN SelectSeq(licenseTypes,
                     LAMBDA license : Includes(toLowerCase(license), toLowerCase(typed)))
      ELSE licenseTypes

\* members of a sequence
Range(s) == {s[k] : k \in 1..Len(s)}

\* a variant of NextSelected without the test of line 160
NextChoice(obj, n) == n

RECURSIVE NextSelected(_, _)
\* the for-loop of lines 159-160: the first choice from position n on that
\* answers.aliasesTypes includes, or Len(aliasesChoices) + 1 when the loop ends
NextSelected(obj, n) ==
  IF n > Len(aliasesChoices) THEN n
  ELSE IF "aliasesTypes" \in DOMAIN obj /\ aliasesChoices[n] \in Range(obj.aliasesTypes)
       THEN n
       ELSE NextSelected(obj, n + 1)

\* the license type search is not open
NoSearch == [input |-> <<>>, candidates |-> <<>>]
\* the candidates shown for the text typed into the search
Searched(input) == [input |-> input, candidates |-> licenseTypeSource(input)]

\* the aliases gate was not answered yet
NotTyped == <<"-">>
\* what the maintainer may type at the aliases gate; nothing is a blank answer
GateInputs == {<<>>, <<"y">>, <<"n">>}

\* the value of a confirm prompt with a default (lines 148-151): the default
\* for a blank answer, else whether the answer is a yes
confirmValue(typed, default) ==
  IF typed = <<>> THEN default ELSE ToLowerChar(Head(typed)) = "y"

Init ==
  /\ pc = "Title"
  /\ answers = EmptyObject
  /\ iconsData \in LoadedDatasets
  /\ loaded = iconsData
  /\ written = <<>>
  /\ exitCode = -1
  /\ validation = NoValidation
  /\ shown = EmptyObject
  /\ i = 0
  /\ issued = <<"title">>
  /\ search = NoSearch
  /\ gateTyped = NotTyped

\* the next prompt opens; key is the answer key it will set
Open(prompt, key) ==
  /\ pc' = prompt
  /\ issued' = Append(issued, key)

\* a variant of InputPrompt that stores a rejected text too
InputPromptKeepsRejected(prompt, key, text, result, next, nextKey) ==
  /\ pc = prompt
  /\ validation' = Validated(prompt, text, result)
  /\ answers' = SetKey(answers, key, text)
  /\ IF result.valid THEN Open(next, nextKey) ELSE UNCHANGED <<pc, issued>>

\* a variant of InputPrompt that resolves with whatever was typed
InputPromptNoRetry(prompt, key, text, result, next, nextKey) ==
  /\ pc = prompt
  /\ validation' = Validated(prompt, text, result)
  /\ answers' = SetKey(answers, key, text)
  /\ Open(next, nextKey)

\* an input prompt with a validate function: the text is validated; a rejected
\* text leaves the prompt open, an accepted one is stored under key
InputPrompt(prompt, key, text, result, next, nextKey) ==
  /\ pc = prompt
  /\ validation' = Validated(prompt, text, result)
  /\ IF result.valid
     THEN answers' = SetKey(answers, key, text) /\ Open(next, nextKey)
     ELSE UNCHANGED <<answers, pc, issued>>

\* the Confirm prompt opens: its message holds the record built from obj
OpenConfirm(obj) ==
  /\ Open("Confirm", "confirmToAdd")
  /\ shown' = getIconDataFromAnswers(obj)

\* lines 92-95
Title ==
  /\ \E text \in TitleInputs :
       InputPrompt("Title", "title", text, titleValidator(iconsData, text),
                   "Hex", "hex")
  /\ UNCHANGED <<iconsData, loaded, written, exitCode, shown, i, search, gateTyped>>

\* lines 97-101
Hex ==
  /\ \E text \in HexInputs :
       InputPrompt("Hex", "hex", text, hexValidator(text), "Source", "source")
  /\ UNCHANGED <<iconsData, loaded, written, exitCode, shown, i, search, gateTyped>>

\* lines 103-106
Source ==
  /\ \E text \in SourceInputs :
       InputPrompt("Source", "source", text, sourceValidator(text),
                   "HasGuidelines", "hasGuidelines")
  /\ UNCHANGED <<iconsData, loaded, written, exitCode, shown, i, search, gateTyped>>

\* a variant of HasGuidelines that asks for the guidelines URL whatever the
\* answer
HasGuidelinesAlwaysAsks ==
  /\ pc = "HasGuidelines"
  /\ \E yes \in BOOLEAN : answers' = SetKey(answers, "hasGuidelines", yes)
  /\ Open("Guidelines", "guidelines")
  /\ UNCHANGED <<iconsData, loaded, written, exitCode, validation, shown, i,
                 search, gateTyped>>

\* lines 108-112
HasGuidelines ==
  /\ pc = "HasGuidelines"
  /\ \E yes \in BOOLEAN :
       /\ answers' = SetKey(answers, "hasGuidelines", yes)
       /\ IF answers'.hasGuidelines
          THEN Open("Guidelines", "guidelines")
          ELSE Open("HasLicense", "hasLicense")
  /\ UNCHANGED <<iconsData, loaded, written, exitCode, validation, shown, i,
                 search, gateTyped>>

\* lines 113-116
Guidelines ==
  /\ \E text \in GuidelinesInputs :
       InputPrompt("Guidelines", "guidelines", text, sourceValidator(text),
                   "HasLicense", "hasLicense")
  /\ UNCHANGED <<iconsData, loaded, written, exitCode, shown, i, search, gateTyped>>

\* lines 119-131: the license type search opens with nothing typed
HasLicense ==
  /\ pc = "HasLicense"
  /\ \E yes \in BOOLEAN :
       /\ answers' = SetKey(answers, "hasLicense", yes)
       /\ IF answers'.hasLicense
          THEN Open("LicenseType", "licenseType") /\ search' = Searched(<<>>)
          ELSE Open("HasAliases", "hasAliases") /\ UNCHANGED search
  /\ UNCHANGED <<iconsData, loaded, written, exitCode, validation, shown, i,
                 gateTyped>>

\* lines 132-139: the maintainer types into the search
LicenseSearch ==
  /\ pc = "LicenseType"
  /\ \E input \in LicenseTypeInputs : search' = Searched(input)
  /\ UNCHANGED <<pc, answers, iconsData, loaded, written, exitCode, validation,
                 shown, i, issued, gateTyped>>

\* lines 130-140: the maintainer picks one of the candidates
LicenseType ==
  /\ pc = "LicenseType"
  /\ \E license \in Range(search.candidates) :
       answers' = SetKey(answers, "licenseType", license)
  /\ search' = NoSearch
  /\ Open("LicenseUrl", "licenseUrl")
  /\ UNCHANGED <<iconsData, loaded, written, exitCode, validation, shown, i,
                 gateTyped>>

\* lines 142-145
LicenseUrl ==
  /\ \E text \in LicenseUrlInputs :
       InputPrompt("LicenseUrl", "licenseUrl", text, licenseUrlValidator(text),
                   "HasAliases", "hasAliases")
  /\ UNCHANGED <<iconsData, loaded, written, exitCode, shown, i, search, gateTyped>>

\* lines 148-153, and lines 169-175 when the answer is no
HasAliases ==
  /\ pc = "HasAliases"
  /\ \E typed \in GateInputs :
       /\ gateTyped' = typed
       /\ answers' = SetKey(answers, "hasAliases", confirmValue(typed, FALSE))
       /\ IF answers'.hasAliases
          THEN Open("AliasesTypes", "aliasesTypes") /\ UNCHANGED shown
          ELSE OpenConfirm(answers')
  /\ UNCHANGED <<iconsData, loaded, written, exitCode, validation, i, search>>

\* lines 154-160: the checked choices, in the order of the choices
AliasesTypes ==
  /\ pc = "AliasesTypes"
  /\ \E checked \in SUBSET Range(aliasesChoices) :
       answers' = SetKey(answers, "aliasesTypes",
                         SelectSeq(aliasesChoices, LAMBDA v : v \in checked))
  /\ i' = NextSelected(answers', 1)
  /\ IF i' > Len(aliasesChoices)
     THEN OpenConfirm(answers')
     ELSE Open("AliasesList", promptKey(aliasesChoices[i'])) /\ UNCHANGED shown
  /\ UNCHANGED <<iconsData, loaded, written, exitCode, validation, search, gateTyped>>

\* lines 159-166: the list prompt of choice number i
AliasesList ==
  /\ pc = "AliasesList"
  /\ \E text \in AliasesListInputs :
       LET result == aliasesListValidator(text)
       IN  /\ validation' = Validated("AliasesList", text, result)
           /\ IF result.valid
              THEN /\ answers' = SetKey(answers, promptKey(aliasesChoices[i]), text)
                   /\ i' = NextSelected(answers', i + 1)
                   /\ IF i' > Len(aliasesChoices)
                      THEN OpenConfirm(answers')
                      ELSE /\ Open("AliasesList", promptKey(aliasesChoices[i']))
                           /\ UNCHANGED shown
              ELSE UNCHANGED <<answers, i, pc, shown, issued>>
  /\ UNCHANGED <<iconsData, loaded, written, exitCode, search, gateTyped>>

\* a variant of WriteBranch that writes the dataset before the push
WriteBeforePush(icon) ==
  /\ written' = Append(written, iconsData)
  /\ iconsData' = PushAndSort(iconsData, icon)
  /\ pc' = "Done"
  /\ exitCode' = 0

\* lines 180-183: the record is pushed, the dataset sorted and written
WriteBranch(icon) ==
  /\ iconsData' = PushAndSort(iconsData, icon)
  /\ written' = Append(written, iconsData')
  /\ pc' = "Done"
  /\ exitCode' = 0

\* a variant of AbortBranch with the write outside the if
AbortAfterWrite ==
  /\ written' = Append(written, iconsData)
  /\ pc' = "Aborted"
  /\ exitCode' = 1
  /\ UNCHANGED iconsData

\* lines 185-186: process.exit(1)
AbortBranch ==
  /\ pc' = "Aborted"
  /\ exitCode' = 1
  /\ UNCHANGED <<iconsData, written>>

\* lines 169-187: the answer to the Confirm prompt and the rest of the script
ConfirmToAdd ==
  /\ pc = "Confirm"
  /\ \E yes \in BOOLEAN :
       /\ answers' = SetKey(answers, "confirmToAdd", yes)
       /\ LET icon == getIconDataFromAnswers(answers')
          IN  IF answers'.confirmToAdd THEN WriteBranch(icon) ELSE AbortBranch
  /\ UNCHANGED <<loaded, validation, shown, i, issued, search, gateTyped>>

Next ==
  \/ Title
  \/ Hex
  \/ Source
  \/ HasGuidelines
  \/ Guidelines
  \/ HasLicense
  \/ LicenseSearch
  \/ LicenseType
  \/ LicenseUrl
  \/ HasAliases
  \/ AliasesTypes
  \/ AliasesList
  \/ ConfirmToAdd

Spec == Init /\ [][Next]_vars

\* a step that leaves the open prompt: its answer was accepted
Advance ==
  /\ \/ Title \/ Hex \/ Source
     \/ HasGuidelines \/ Guidelines
     \/ HasLicense \/ LicenseType \/ LicenseUrl
     \/ HasAliases \/ AliasesTypes \/ AliasesList
  /\ issued' # issued

\* a step that ends the script
Finish == ConfirmToAdd

\* the maintainer does not type rejected texts for ever: a prompt that is
\* open again and again is answered with an accepted input at last
\* (FairSpec, below)
\* a search that offers nothing is retyped into one that offers a choice
Retype ==
  /\ search.candidates = <<>>
  /\ LicenseSearch
  /\ search'.candidates # <<>>

FairSpec ==
  Spec /\ SF_vars(Advance) /\ WF_vars(Retype) /\ WF_vars(Finish)

(***************************************************************************)
(* Properties.                                                             *)
(***************************************************************************)
Answered(key) == key \in DOMAIN answers

\* the Confirm prompt has been opened, so every earlier prompt is answered
RecordBuilt == pc \in {"Confirm", "Done", "Aborted"}

\* C1: whenever the Confirm prompt was answered no, the in-memory dataset is
\* the dataset loaded at start, writeIconsData was never called, and the run
\* has ended in Aborted with exit status 1.
C1_DeclineAborts ==
  (Answered("confirmToAdd") /\ ~answers.confirmToAdd) =>
    /\ iconsData = loaded
    /\ written = <<>>
    /\ pc = "Aborted"
    /\ exitCode = 1

\* a declined run over a non-empty dataset, with every optional part answered
C1_Witness ==
  /\ Answered("confirmToAdd") /\ ~answers.confirmToAdd
  /\ pc = "Aborted"
  /\ loaded # <<>>
  /\ answers.hasGuidelines /\ answers.hasLicense /\ answers.hasAliases
  /\ Answered("akaAliasesList")

\* C2: writeIconsData is called at most once and only after the Confirm
\* prompt was answered yes; before that answer the dataset is the loaded one
\* and nothing is written; after a yes there is exactly one write, of the
\* in-memory dataset, and it contains the new record.
C2_WriteGatedByConfirm ==
  /\ Len(written) <= 1
  /\ written # <<>> => (Answered("confirmToAdd") /\ answers.confirmToAdd)
  /\ ~Answered("confirmToAdd") => (iconsData = loaded /\ written = <<>>)
  /\ (Answered("confirmToAdd") /\ answers.confirmToAdd) =>
       /\ Len(written) = 1
       /\ written[1] = iconsData
       /\ \E k \in 1..Len(written[1]) : written[1][k] = getIconDataFromAnswers(answers)
       /\ \E k \in 1..Len(written[1]) : written[1][k].title = answers.title

\* a confirmed run: one write, one record more than loaded
C2_Witness ==
  /\ pc = "Done"
  /\ answers.confirmToAdd
  /\ Len(written) = 1
  /\ Len(written[1]) = Len(loaded) + 1
  /\ loaded # <<>>

\* the existing records, as a set
Existing == {iconsData[k] : k \in 1..Len(iconsData)}

\* C3: the title validator rejects the empty text with a reason, rejects with
\* a reason every text equal to an existing title or with the slug of an
\* existing title, and accepts every other non-empty text.
C3_TitleValidator ==
  validation.prompt = "Title" =>
    LET text == validation.text
        collides == \E x \in Existing :
                      x.title = text \/ titleToSlug(x.title) = titleToSlug(text)
    IN  /\ text = <<>> => (~validation.result.valid /\ validation.result.reason # "")
        /\ collides => (~validation.result.valid /\ validation.result.reason # "")
        /\ (text # <<>> /\ ~collides) => validation.result = Accept
        /\ validation.result.valid => (pc = "Hex" /\ answers.title = text)
        /\ ~validation.result.valid => (pc = "Title" /\ ~Answered("title"))

\* a title that is no existing title but has the slug of one is rejected
C3_Witness ==
  /\ validation.prompt = "Title"
  /\ ~validation.result.valid
  /\ validation.text # <<>>
  /\ \A x \in Existing : x.title # validation.text
  /\ \E x \in Existing : titleToSlug(x.title) = titleToSlug(validation.text)

\* an optional '#' followed by 3, 4, 6 or 8 hexadecimal digits
HexOfColourLength(text) ==
  LET body == IF text # <<>> /\ Head(text) = "#" THEN Tail(text) ELSE text
  IN  /\ Len(body) \in {3, 4, 6, 8}
      /\ \A k \in 1..Len(body) : body[k] \in HexDigits

\* C4: the hex validator accepts a text exactly when it is an optional '#'
\* followed by 3, 4, 6 or 8 hexadecimal digits, and rejects every other text
\* with a reason.
C4_HexValidator ==
  validation.prompt = "Hex" =>
    /\ validation.result.valid <=> HexOfColourLength(validation.text)
    /\ ~validation.result.valid => validation.result.reason # ""

\* the secure-URL pattern on a text
SecureUrl(text) == URL_REGEX_test(text)

\* C5: at the Source and Guidelines prompts every text that does not match
\* the secure-URL pattern, the empty text included, is rejected with a
\* reason; at the License URL prompt the empty text is accepted and every
\* other text is accepted or rejected as at the Source prompt, with the same
\* reason; an accepted text is stored unchanged.
C5_UrlValidation ==
  LET text == validation.text
      result == validation.result
      reason == "This should be a secure URL"
  IN  /\ validation.prompt \in {"Source", "Guidelines"} =>
           /\ ~SecureUrl(text) => result = Reject(reason)
           /\ SecureUrl(text) => result = Accept
      /\ validation.prompt = "LicenseUrl" =>
           /\ text = <<>> => result = Accept
           /\ (text # <<>> /\ ~SecureUrl(text)) => result = Reject(reason)
           /\ (text # <<>> /\ SecureUrl(text)) => result = Accept
      /\ (validation.prompt = "Source" /\ result.valid) => answers.source = text
      /\ (validation.prompt = "Guidelines" /\ result.valid) => answers.guidelines = text
      /\ (validation.prompt = "LicenseUrl" /\ result.valid) => answers.licenseUrl = text
      /\ (validation.prompt = "Source" /\ ~result.valid) => ~Answered("source")
      /\ (validation.prompt = "Guidelines" /\ ~result.valid) => ~Answered("guidelines")
      /\ (validation.prompt = "LicenseUrl" /\ ~result.valid) => ~Answered("licenseUrl")

\* the License URL prompt left empty after an http URL was rejected at the
\* Source prompt and a URL with a space at the Guidelines prompt
C5_Witness ==
  /\ validation.prompt = "LicenseUrl"
  /\ validation.text = <<>>
  /\ validation.result.valid
  /\ answers.licenseUrl = <<>>
  /\ answers.source = UrlScheme \o <<"s">>
  /\ Answered("guidelines")
  /\ answers.guidelines = UrlScheme \o <<"g">>

\* the record built from the answers, once the Confirm prompt has opened
Record == getIconDataFromAnswers(answers)

\* C6: when the guidelines, license and aliases gates were all answered no,
\* the built record has exactly the keys title, hex and source.
C6_OptionalFieldsOmitted ==
  (RecordBuilt /\ ~answers.hasGuidelines /\ ~answers.hasLicense /\ ~answers.hasAliases) =>
    /\ DOMAIN Record = {"title", "hex", "source"}
    /\ DOMAIN shown = {"title", "hex", "source"}
    /\ pc = "Done" => \E k \in 1..Len(iconsData) :
                        /\ iconsData[k].title = answers.title
                        /\ DOMAIN iconsData[k] = {"title", "hex", "source"}

\* a written record of a run that answered no at the three gates
C6_Witness ==
  /\ pc = "Done"
  /\ ~answers.hasGuidelines /\ ~answers.hasLicense /\ ~answers.hasAliases
  /\ Record.title = answers.title
  /\ Record.source = answers.source

\* the text without its white space
Squeeze(text) == SelectSeq(text, LAMBDA c : c \notin WhiteSpace)

\* the number of commas of the text
Commas(text) == Cardinality({k \in 1..Len(text) : text[k] = ","})

RECURSIVE JoinWithCommas(_)
JoinWithCommas(list) ==
  IF Len(list) = 1 THEN Head(list)
  ELSE Head(list) \o <<",">> \o JoinWithCommas(Tail(list))

\* list is text cut at its commas, every entry trimmed, in the order of text
IsTrimmedSplit(list, text) ==
  /\ Len(list) = Commas(text) + 1
  /\ \A k \in 1..Len(list) :
       /\ \A j \in 1..Len(list[k]) : list[k][j] # ","
       /\ list[k] # <<>> => (Head(list[k]) \notin WhiteSpace /\
                             list[k][Len(list[k])] \notin WhiteSpace)
  /\ Squeeze(JoinWithCommas(list)) = Squeeze(text)

\* C7: with the aliases gate affirmed, the keys of the record's aliases map
\* are exactly the categories selected in the multi-select, and the value of
\* a selected category is its list input cut at the commas, every entry
\* trimmed, in input order.
C7_AliasCategories ==
  (RecordBuilt /\ answers.hasAliases) =>
    /\ "aliases" \in DOMAIN Record
    /\ DOMAIN Record.aliases = Range(answers.aliasesTypes)
    /\ \A c \in Range(answers.aliasesTypes) :
         /\ IsTrimmedSplit(Record.aliases[c], answers[promptKey(c)])
         /\ answers[promptKey(c)] = <<"b", ",", " ", "a", " ">> =>
              Record.aliases[c] = <<<<"b">>, <<"a">>>>

\* only aka selected of aka and old, its input "b, a "
C7_Witness ==
  /\ RecordBuilt /\ answers.hasAliases
  /\ answers.aliasesTypes = <<"aka">>
  /\ answers.akaAliasesList = <<"b", ",", " ", "a", " ">>
  /\ Record.aliases = [aka |-> <<<<"b">>, <<"a">>>>]

\* C8: the collection handed to writeIconsData after a yes is sorted by title
\* under the collator and holds the new record.
C8_WrittenSorted ==
  pc = "Done" =>
    /\ IsSortedByTitle(written[1])
    /\ \A j, k \in 1..Len(written[1]) :
         j < k => collator_compare(written[1][j].title, written[1][k].title) <= 0
    /\ \E k \in 1..Len(written[1]) : written[1][k] = Record

\* the new record was put in front of a loaded record
C8_Witness ==
  /\ pc = "Done"
  /\ Len(written[1]) >= 2
  /\ written[1][1] = Record
  /\ written[1][2] = loaded[1]

\* C9: when no two records of the loaded dataset share a title or a slug, no
\* two records of the written dataset do.
C9_WrittenUnique ==
  (pc = "Done" /\ IsUnique(loaded)) => IsUnique(written[1])

\* a written dataset of two records whose titles differ in length only
C9_Witness ==
  /\ pc = "Done"
  /\ Len(loaded) = 1
  /\ Len(written[1]) = 2
  /\ answers.title # loaded[1].title
  /\ Len(titleToSlug(answers.title)) # Len(titleToSlug(loaded[1].title))

\* C10: the record has a license key exactly when the license gate was
\* affirmed; then license.type is the selected type, and license has a url
\* key exactly when the License URL answer is not empty, with that answer as
\* its value.
C10_LicenseShape ==
  RecordBuilt =>
    /\ "license" \in DOMAIN Record <=> answers.hasLicense
    /\ answers.hasLicense =>
         /\ Record.license.type = answers.licenseType
         /\ "url" \in DOMAIN Record.license <=> answers.licenseUrl # <<>>
         /\ answers.licenseUrl # <<>> => Record.license.url = answers.licenseUrl
         /\ DOMAIN Record.license \subseteq {"type", "url"}

\* a license without a url
C10_Witness ==
  /\ RecordBuilt
  /\ answers.hasLicense
  /\ answers.licenseUrl = <<>>
  /\ Record.license = [type |-> <<"M", "I", "T">>]


\* the prompts that run unconditionally, in the order of the script
FirstKeys == <<"title", "hex", "source">>

\* C11: Title, Hex and Source are the first three prompts, in that order;
\* while a validator rejects, the script stays at that prompt and the key is
\* not set; a key is set only to a text its validator accepts, so the title,
\* hex and source held at Confirm each satisfy their validator.
C11_OrderAndRetry ==
  /\ \A k \in 1..Len(issued) : k <= Len(FirstKeys) => issued[k] = FirstKeys[k]
  /\ ~validation.result.valid => pc = validation.prompt
  /\ pc = "Title" <=> ~Answered("title")
  /\ pc = "Hex" <=> (Answered("title") /\ ~Answered("hex"))
  /\ pc = "Source" <=> (Answered("hex") /\ ~Answered("source"))
  /\ Answered("title") => titleValidator(loaded, answers.title) = Accept
  /\ Answered("hex") => hexValidator(answers.hex) = Accept
  /\ Answered("source") => sourceValidator(answers.source) = Accept
  /\ RecordBuilt => (Answered("title") /\ Answered("hex") /\ Answered("source"))

\* a text rejected at the Source prompt: the script is still there
C11_Witness ==
  /\ validation.prompt = "Source"
  /\ ~validation.result.valid
  /\ validation.text # <<>>
  /\ pc = "Source"
  /\ issued = FirstKeys


\* the prompt that sets key was opened
Issued(key) == \E k \in 1..Len(issued) : issued[k] = key

\* the key of the prompt opened right after the prompt of key
IssuedAfter(key) ==
  LET k == CHOOSE n \in 1..Len(issued) : issued[n] = key IN issued[k + 1]

\* C12: the Guidelines URL prompt is opened exactly when the guidelines gate
\* was answered yes, and a no goes directly to the license gate; the license
\* type and License URL prompts are opened exactly when the license gate was
\* answered yes; the alias multi-select exactly when the aliases gate was; so
\* the record has a guidelines key exactly when the gate was affirmed, its
\* value a URL the URL validator accepts.
C12_Gating ==
  /\ Answered("hasGuidelines") =>
       /\ Issued("guidelines") <=> answers.hasGuidelines
       /\ IssuedAfter("hasGuidelines") =
            IF answers.hasGuidelines THEN "guidelines" ELSE "hasLicense"
  /\ Issued("guidelines") => Answered("hasGuidelines")
  /\ Answered("hasLicense") =>
       /\ Issued("licenseType") <=> answers.hasLicense
       /\ Issued("licenseUrl") => answers.hasLicense
       /\ IssuedAfter("hasLicense") =
            IF answers.hasLicense THEN "licenseType" ELSE "hasAliases"
  /\ (Issued("licenseType") \/ Issued("licenseUrl")) => Answered("hasLicense")
  /\ Answered("hasAliases") =>
       /\ Issued("licenseUrl") <=> answers.hasLicense
       /\ Issued("aliasesTypes") <=> answers.hasAliases
  /\ Issued("aliasesTypes") => Answered("hasAliases")
  /\ RecordBuilt =>
       /\ "guidelines" \in DOMAIN Record <=> answers.hasGuidelines
       /\ answers.hasGuidelines =>
            /\ Record.guidelines = answers.guidelines
            /\ SecureUrl(Record.guidelines)

\* a run that skipped the guidelines URL and was asked for the license
C12_Witness ==
  /\ RecordBuilt
  /\ ~answers.hasGuidelines
  /\ answers.hasLicense
  /\ ~Issued("guidelines")
  /\ Issued("licenseType") /\ Issued("licenseUrl")
  /\ "guidelines" \notin DOMAIN Record


\* the keys of the alias list prompts
ListKeys == {promptKey(aliasesChoices[k]) : k \in 1..Len(aliasesChoices)}

\* the alias list prompts opened so far, in order
IssuedLists == SelectSeq(issued, LAMBDA key : key \in ListKeys)

\* the list keys of the selected categories, in the order of the schema
SelectedListKeys ==
  LET selected == SelectSeq(AliasesProperties,
                            LAMBDA c : c \in Range(answers.aliasesTypes))
  IN  [k \in 1..Len(selected) |-> promptKey(selected[k])]

\* C13: with the aliases gate affirmed, one list prompt is opened for each
\* selected category and none for another, in the order of the schema's
\* categories, all before the Confirm prompt; with the gate answered no, which
\* a blank answer is too, neither the multi-select nor a list prompt is
\* opened.
C13_AliasListPrompts ==
  /\ \A c \in Range(aliasesChoices) :
       Issued(promptKey(c)) =>
         /\ Answered("hasAliases") /\ answers.hasAliases
         /\ Answered("aliasesTypes") /\ c \in Range(answers.aliasesTypes)
  /\ (RecordBuilt /\ answers.hasAliases) => IssuedLists = SelectedListKeys
  /\ RecordBuilt =>
       /\ issued[Len(issued)] = "confirmToAdd"
       /\ \A k \in 1..(Len(issued) - 1) : issued[k] # "confirmToAdd"
  /\ (Answered("hasAliases") /\ ~answers.hasAliases) =>
       /\ ~Issued("aliasesTypes")
       /\ IssuedLists = <<>>
       /\ IssuedAfter("hasAliases") = "confirmToAdd"
  /\ gateTyped = <<>> => (Answered("hasAliases") /\ ~answers.hasAliases)

\* both categories selected: the aka list was asked before the old list
C13_Witness ==
  /\ RecordBuilt
  /\ answers.hasAliases
  /\ Range(answers.aliasesTypes) = {"aka", "old"}
  /\ IssuedLists = <<"akaAliasesList", "oldAliasesList">>


\* C14: the alias list validator rejects the empty text and a text of white
\* space only, and every alias list of the built record is a non-empty list
\* of non-empty trimmed entries.
C14_AliasEntriesNonEmpty ==
  /\ (validation.prompt = "AliasesList" /\ Squeeze(validation.text) = <<>>) =>
       ~validation.result.valid
  /\ (RecordBuilt /\ answers.hasAliases) =>
       \A c \in DOMAIN Record.aliases :
         /\ Record.aliases[c] # <<>>
         /\ \A k \in 1..Len(Record.aliases[c]) :
              /\ Record.aliases[c][k] # <<>>
              /\ Record.aliases[c][k] = trim(Record.aliases[c][k])

\* C15: every optional part of the built record is absent or non-empty; the
\* record never has an aliases key with an empty map.
C15_NoEmptyPlaceholders ==
  RecordBuilt =>
    /\ "guidelines" \in DOMAIN Record => Record.guidelines # <<>>
    /\ "license" \in DOMAIN Record => DOMAIN Record.license # {}
    /\ "aliases" \in DOMAIN Record => DOMAIN Record.aliases # {}


\* the key the open prompt will set
OpenKey == issued[Len(issued)]

\* C16: a step never changes or removes a key of the answers that is set; a
\* step whose text was rejected leaves the answers as they were, the key of
\* the open prompt absent.
C16_AnswersAppendOnly ==
  [][ /\ \A key \in DOMAIN answers :
           key \in DOMAIN answers' /\ answers'[key] = answers[key]
      /\ ~validation'.result.valid =>
           /\ answers' = answers
           /\ OpenKey' = OpenKey
           /\ OpenKey' \notin DOMAIN answers'
    ]_vars

\* a License URL text was rejected: the type is set, the url key is not
C16_Witness ==
  /\ validation.prompt = "LicenseUrl"
  /\ ~validation.result.valid
  /\ Answered("licenseType")
  /\ ~Answered("licenseUrl")
  /\ OpenKey = "licenseUrl"


\* the text from its first to its last character that is not white space
Core(text) ==
  LET inked == {k \in 1..Len(text) : text[k] \notin WhiteSpace}
  IN  IF inked = {} THEN <<>>
      ELSE SubSeq(text,
                  CHOOSE k \in inked : \A j \in inked : k <= j,
                  CHOOSE k \in inked : \A j \in inked : k >= j)

\* part occurs in value, the case of the letters ignored
ContainsNoCase(value, part) ==
  \E off \in 0..(Len(value) - Len(part)) :
    \A j \in 1..Len(part) : ToLowerChar(value[off + j]) = ToLowerChar(part[j])

\* the position of a license type in the schema's enumeration
EnumPosition(type) == CHOOSE k \in 1..Len(LicenseTypeEnum) : LicenseTypeEnum[k] = type

\* C17: the candidates offered at the license type prompt are the schema's
\* license types that contain the trimmed typed text, case ignored, in schema
\* order, and all of them when the trimmed text is empty; so the license type
\* of the record is one of the schema's license types.
C17_LicenseTypeCandidates ==
  /\ pc = "LicenseType" =>
       /\ \A type \in Range(LicenseTypeEnum) :
            type \in Range(search.candidates) <=>
              (Core(search.input) = <<>> \/ ContainsNoCase(type, Core(search.input)))
       /\ Range(search.candidates) \subseteq Range(LicenseTypeEnum)
       /\ \A j, k \in 1..Len(search.candidates) :
            j < k => EnumPosition(search.candidates[j]) < EnumPosition(search.candidates[k])
       /\ Core(search.input) = <<>> => search.candidates = LicenseTypeEnum
  /\ Answered("licenseType") => answers.licenseType \in Range(LicenseTypeEnum)
  /\ (RecordBuilt /\ answers.hasLicense) =>
       Record.license.type \in Range(LicenseTypeEnum)

\* " mI " typed: the one candidate is MIT
C17_Witness ==
  /\ pc = "LicenseType"
  /\ search.input = <<" ", "m", "I", " ">>
  /\ search.candidates = <<<<"M", "I", "T">>>>


\* C18: the record shown in the Confirm prompt is the record built after the
\* answer, and after a yes it is the record pushed into the dataset: the one
\* record of the written dataset that was not loaded.
C18_ShownIsInserted ==
  /\ RecordBuilt => shown = Record
  /\ pc = "Done" =>
       /\ \E k \in 1..Len(iconsData) : iconsData[k] = shown
       /\ \A k \in 1..Len(loaded) : loaded[k] # shown
       /\ \A k \in 1..Len(iconsData) :
            iconsData[k] # shown => \E j \in 1..Len(loaded) : loaded[j] = iconsData[k]

\* a confirmed run with a license, aliases and guidelines in the record
C18_Witness ==
  /\ pc = "Done"
  /\ answers.confirmToAdd
  /\ DOMAIN shown = {"title", "hex", "source", "guidelines", "license", "aliases"}
  /\ \E k \in 1..Len(iconsData) : iconsData[k] = shown


\* how many times x occurs in the sequence
Count(s, x) == Cardinality({k \in 1..Len(s) : s[k] = x})

\* C19: the dataset written after a yes has one record more than the loaded
\* one; it is a permutation of the loaded records, each unchanged, and the
\* new record.
C19_MergeFrame ==
  pc = "Done" =>
    /\ Len(written[1]) = Len(loaded) + 1
    /\ \A x \in Range(written[1]) \cup Range(loaded) \cup {Record} :
         Count(written[1], x) = Count(loaded, x) + (IF x = Record THEN 1 ELSE 0)

\* a written dataset of two records: the new one, then the loaded one
C19_Witness ==
  /\ pc = "Done"
  /\ Len(loaded) = 1
  /\ written[1] = <<Record, loaded[1]>>
  /\ Record # loaded[1]


Terminal == pc \in {"Done", "Aborted"}

\* some text the maintainer may type is a new title with a new slug
TitleAvailable ==
  \E text \in TitleInputs \ {<<>>} :
    \A k \in 1..Len(loaded) :
      /\ loaded[k].title # text
      /\ titleToSlug(loaded[k].title) # titleToSlug(text)

\* C20: when the maintainer supplies an accepted input at every prompt in
\* the end, the run reaches Done or Aborted; Done is the end after the one
\* write with exit status 0 and Aborted the end without a write with exit
\* status 1; from either no prompt is opened and the answers and the dataset
\* change no more.
C20_Termination ==
  /\ TitleAvailable => <>Terminal
  /\ [](pc = "Done" => (exitCode = 0 /\ Len(written) = 1))
  /\ [](pc = "Aborted" => (exitCode = 1 /\ written = <<>>))
  /\ [][Terminal => UNCHANGED <<pc, issued, answers, iconsData, written>>]_vars

\* an aborted run and nothing written
C20_Witness ==
  /\ pc = "Aborted"
  /\ exitCode = 1
  /\ issued[Len(issued)] = "confirmToAdd"
  /\ Len(issued) > 9

====
